---- MODULE Spec2Model ----
(***************************************************************************)
(* Holepunch: the Service reconciler that forwards the ports of opted-in   *)
(* LoadBalancer services on a UPnP gateway (controllers/                   *)
(* service_controller.go, the current revision of the file: the package    *)
(* that declares leaseDurationSeconds).                                    *)
(*                                                                         *)
(* Strings that the code parses or compares character by character (the   *)
(* annotation keys and values) are sequences of one-character strings.     *)
(* Errors are tuples of strings, the nil error is the empty tuple.         *)
(***************************************************************************)
EXTENDS Integers, Sequences, FiniteSets, TLC

(***************************************************************************)
(* Program constants.                                                      *)
(***************************************************************************)
holepunchAnnotationName ==
    <<"h", "o", "l", "e", "p", "u", "n", "c", "h", "/", "p", "u", "n", "c", "h", "-", "e", "x", "t", "e", "r", "n", "a", "l">>

holepunchPortMapAnnotationPrefix ==
    <<"h", "o", "l", "e", "p", "u", "n", "c", "h", ".", "p", "o", "r", "t", "/">>

leaseDurationSeconds ==
    3600

\* the literal of "leaseDurationSeconds-30" in the requeue delay
safetyMarginSeconds ==
    30

\* bitSize 16 of strconv.ParseUint and the width of uint16
MaxUint16 ==
    65535

ServiceTypeLoadBalancer ==
    "LoadBalancer"

ProtocolTCP ==
    "TCP"

ProtocolUDP ==
    "UDP"

(***************************************************************************)
(* Bounds of the model.                                                    *)
(***************************************************************************)
\* longest list of declared ports of a service
MaxPorts ==
    2

\* most candidate clients one discovery task finds
MaxClients ==
    2

(***************************************************************************)
(* Errors.                                                                 *)
(***************************************************************************)
NoError ==
    << >>

ErrSyntax ==
    <<"strconv.ParseUint", "invalid syntax">>

ErrRange ==
    <<"strconv.ParseUint", "value out of range">>

ErrNoServicesFound ==
    <<"No services found">>

ErrNoIP ==
    <<"no IP available for LoadBalancer (not yet allocated?)">>

ErrProtocol(serviceProtocol) ==
    <<"protocol type %s not supported", serviceProtocol>>

ErrURL ==
    <<"url.Parse">>

ErrGet ==
    <<"client.Get">>

ErrGetExternalIPAddress ==
    <<"GetExternalIPAddress">>

ErrAddPortMapping ==
    <<"AddPortMapping">>

ErrDiscovery(v) ==
    <<"discovery", v>>

(***************************************************************************)
(* strconv.ParseUint(s, 10, 16): scans the digits left to right; a         *)
(* character that is no decimal digit is a syntax error, a value above     *)
(* 65535 a range error, whichever the scan meets first.                    *)
(***************************************************************************)
DigitChars ==
    <<"0", "1", "2", "3", "4", "5", "6", "7", "8", "9">>

IsDigit(c) ==
    \E d \in 1..10 : DigitChars[d] = c

DigitValue(c) ==
    (CHOOSE d \in 1..10 : DigitChars[d] = c) - 1

RECURSIVE ParseScan(_, _, _)
ParseScan(s, i, n) ==
    IF i > Len(s) THEN [val |-> n, err |-> NoError]
    ELSE IF ~IsDigit(s[i]) THEN [val |-> 0, err |-> ErrSyntax]
    ELSE IF n * 10 + DigitValue(s[i]) > MaxUint16 THEN [val |-> MaxUint16, err |-> ErrRange]
    ELSE ParseScan(s, i + 1, n * 10 + DigitValue(s[i]))

\* a parse that saturates at 65535 where the value is out of range
ParseUintSaturating(s) ==
    IF s = << >> THEN [val |-> 0, err |-> ErrSyntax]
    ELSE LET r == ParseScan(s, 1, 0)
         IN  IF r.err = ErrRange THEN [val |-> r.val, err |-> NoError] ELSE r

ParseUint(s) ==
    IF s = << >> THEN [val |-> 0, err |-> ErrSyntax] ELSE ParseScan(s, 1, 0)

\* the conversion uint16(x)
Uint16(x) ==
    x % (MaxUint16 + 1)

HasPrefix(s, prefix) ==
    /\ Len(s) >= Len(prefix)
    /\ SubSeq(s, 1, Len(prefix)) = prefix

TrimPrefix(s, prefix) ==
    IF HasPrefix(s, prefix) THEN SubSeq(s, Len(prefix) + 1, Len(s)) ELSE s

(***************************************************************************)
(* Go maps are functions with a finite domain.                             *)
(***************************************************************************)
EmptyMap ==
    [k \in {} |-> 0]

MapPut(m, k, v) ==
    [x \in (DOMAIN m) \cup {k} |-> IF x = k THEN v ELSE m[x]]

\* the orders in which a range statement may visit the keys of a map
IterationOrders(m) ==
    {o \in [1..Cardinality(DOMAIN m) -> DOMAIN m] :
        \A i, j \in DOMAIN o : i # j => o[i] # o[j]}

(***************************************************************************)
(* getHolepunchPortMapping: visits the annotations in the order "order";   *)
(* the first malformed pair ends it with a nil map and the error.          *)
(***************************************************************************)
RECURSIVE PortMappingLoop(_, _, _, _)
PortMappingLoop(annotations, order, i, portMapping) ==
    IF i > Len(order) THEN [isNil |-> FALSE, portMapping |-> portMapping, err |-> NoError]
    ELSE LET annotationName == order[i]
             annotationValue == annotations[annotationName]
         IN  IF HasPrefix(annotationName, holepunchPortMapAnnotationPrefix)
             THEN LET internalPort == ParseUint(TrimPrefix(annotationName, holepunchPortMapAnnotationPrefix))
                      externalPort == ParseUint(annotationValue)
                  IN  IF internalPort.err # NoError
                      THEN [isNil |-> TRUE, portMapping |-> EmptyMap, err |-> internalPort.err]
                      ELSE IF externalPort.err # NoError
                      THEN [isNil |-> TRUE, portMapping |-> EmptyMap, err |-> externalPort.err]
                      ELSE PortMappingLoop(annotations, order, i + 1,
                               MapPut(portMapping, Uint16(internalPort.val), Uint16(externalPort.val)))
             ELSE PortMappingLoop(annotations, order, i + 1, portMapping)

getHolepunchPortMapping(svc, order) ==
    PortMappingLoop(svc.Annotations, order, 1, EmptyMap)

\* a flag test that ignores the case of the value
hasHolepunchAnnotationAnyCase(svc) ==
    \E name \in DOMAIN svc.Annotations :
        /\ name = holepunchAnnotationName
        /\ svc.Annotations[name] \in {<<"t", "r", "u", "e">>, <<"T", "R", "U", "E">>, <<"T", "r", "u", "e">>}

(***************************************************************************)
(* hasHolepunchAnnotation: the keys of a map are distinct, so the loop     *)
(* returns at the one key equal to the flag name, if there is one.         *)
(***************************************************************************)
hasHolepunchAnnotation(svc) ==
    \E name \in DOMAIN svc.Annotations :
        /\ name = holepunchAnnotationName
        /\ svc.Annotations[name] = <<"t", "r", "u", "e">>

\* a protocol mapping that passes every protocol name through
toUPnPProtocolAny(serviceProtocol) ==
    [protocol |-> serviceProtocol, err |-> NoError]

toUPnPProtocol(serviceProtocol) ==
    IF serviceProtocol = ProtocolTCP THEN [protocol |-> "TCP", err |-> NoError]
    ELSE IF serviceProtocol = ProtocolUDP THEN [protocol |-> "UDP", err |-> NoError]
    ELSE [protocol |-> "", err |-> ErrProtocol(serviceProtocol)]

RECURSIVE IngressScan(_, _)
IngressScan(ingress, i) ==
    IF i > Len(ingress) THEN [ip |-> "", err |-> ErrNoIP]
    ELSE IF ingress[i] # "" THEN [ip |-> ingress[i], err |-> NoError]
    ELSE IngressScan(ingress, i + 1)

\* a lookup that takes the first ingress entry, whether it has an IP or not
getServiceIPFirstEntry(svc) ==
    IF Len(svc.Ingress) = 0 THEN [ip |-> "", err |-> ErrNoIP]
    ELSE [ip |-> svc.Ingress[1], err |-> NoError]

getServiceIP(svc) ==
    IngressScan(svc.Ingress, 1)

\* fmt.Sprintf("Mapping for %s/%s", service.Name, service.Namespace)
Description(svc) ==
    <<"Mapping for ", svc.Name, "/", svc.Namespace>>

\* a requeue delay without the margin
RequeueAfterNoMargin ==
    leaseDurationSeconds

\* (leaseDurationSeconds - 30) * time.Second, in seconds
RequeueAfter ==
    leaseDurationSeconds - safetyMarginSeconds


(***************************************************************************)
(* PickRouterClient: the five candidate lists, in the order the tasks are  *)
(* launched, and the selection made after tasks.Wait().                    *)
(***************************************************************************)
Variants ==
    {"ip1Clients", "ip2Clients", "ppp1Clients", "ip1V1Clients", "ppp1V1Clients"}

NoRouter ==
    << >>

\* url.Parse(rootDesc[0]); the descriptors the model draws that do not parse
MalformedURLs ==
    {"http://[fe80::1"}

UrlParse(rootDesc) ==
    IF rootDesc \in MalformedURLs THEN ErrURL ELSE NoError

\* a selection that prefers WANIPConnection1 to WANIPConnection2
SelectClientIp1First(c, waitErr) ==
    IF Len(c["ip1Clients"]) > 0 THEN [router |-> c["ip1Clients"][1], err |-> NoError]
    ELSE IF Len(c["ip2Clients"]) > 0 THEN [router |-> c["ip2Clients"][1], err |-> NoError]
    ELSE IF Len(c["ppp1Clients"]) > 0 THEN [router |-> c["ppp1Clients"][1], err |-> NoError]
    ELSE IF Len(c["ip1V1Clients"]) > 0 THEN [router |-> c["ip1V1Clients"][1], err |-> NoError]
    ELSE IF Len(c["ppp1V1Clients"]) > 0 THEN [router |-> c["ppp1V1Clients"][1], err |-> NoError]
    ELSE [router |-> NoRouter, err |-> ErrNoServicesFound]

\* a selection that returns the error of tasks.Wait() when there is one
SelectClientAbortOnError(c, waitErr) ==
    IF waitErr # NoError THEN [router |-> NoRouter, err |-> waitErr]
    ELSE IF Len(c["ip2Clients"]) > 0 THEN [router |-> c["ip2Clients"][1], err |-> NoError]
    ELSE IF Len(c["ip1Clients"]) > 0 THEN [router |-> c["ip1Clients"][1], err |-> NoError]
    ELSE IF Len(c["ppp1Clients"]) > 0 THEN [router |-> c["ppp1Clients"][1], err |-> NoError]
    ELSE IF Len(c["ip1V1Clients"]) > 0 THEN [router |-> c["ip1V1Clients"][1], err |-> NoError]
    ELSE IF Len(c["ppp1V1Clients"]) > 0 THEN [router |-> c["ppp1V1Clients"][1], err |-> NoError]
    ELSE [router |-> NoRouter, err |-> ErrNoServicesFound]

\* the switch after tasks.Wait(), whose result (the group's error) is dropped
SelectClient(c, waitErr) ==
    IF Len(c["ip2Clients"]) > 0 THEN [router |-> c["ip2Clients"][1], err |-> NoError]
    ELSE IF Len(c["ip1Clients"]) > 0 THEN [router |-> c["ip1Clients"][1], err |-> NoError]
    ELSE IF Len(c["ppp1Clients"]) > 0 THEN [router |-> c["ppp1Clients"][1], err |-> NoError]
    ELSE IF Len(c["ip1V1Clients"]) > 0 THEN [router |-> c["ip1V1Clients"][1], err |-> NoError]
    ELSE IF Len(c["ppp1V1Clients"]) > 0 THEN [router |-> c["ppp1V1Clients"][1], err |-> NoError]
    ELSE [router |-> NoRouter, err |-> ErrNoServicesFound]

\* what one enumeration (New...Clients or New...ClientsByURL) hands back:
\* n clients, none, or none and an error
Enumeration(v, o) ==
    IF o.kind = "found" THEN [clients |-> [i \in 1..o.n |-> <<v, i>>], err |-> NoError]
    ELSE IF o.kind = "error" THEN [clients |-> << >>, err |-> ErrDiscovery(v)]
    ELSE [clients |-> << >>, err |-> NoError]

\* an entry whose fetch does not ignore NotFound
ReconcileEntryNotFoundIsError(svc, rootDesc, fetch, order) ==
    LET pm == getHolepunchPortMapping(svc, order)
        none == [isNil |-> TRUE, portMapping |-> EmptyMap, err |-> NoError]
    IN  IF fetch \in {"error", "notfound"} THEN [at |-> "get", err |-> ErrGet, pm |-> none]
        ELSE IF ~hasHolepunchAnnotation(svc) THEN [at |-> "notopted", err |-> NoError, pm |-> none]
        ELSE IF svc.Type # ServiceTypeLoadBalancer THEN [at |-> "notlb", err |-> NoError, pm |-> none]
        ELSE IF pm.err # NoError THEN [at |-> "parse", err |-> pm.err, pm |-> pm]
        ELSE IF rootDesc # "" /\ UrlParse(rootDesc) # NoError
             THEN [at |-> "pick", err |-> UrlParse(rootDesc), pm |-> pm]
        ELSE [at |-> "discover", err |-> NoError, pm |-> pm]

(***************************************************************************)
(* Reconcile up to the launch of the discovery tasks: where it returns     *)
(* ("at") and with what, or that it goes on to discovery.                  *)
(***************************************************************************)
ReconcileEntry(svc, rootDesc, fetch, order) ==
    LET pm == getHolepunchPortMapping(svc, order)
        none == [isNil |-> TRUE, portMapping |-> EmptyMap, err |-> NoError]
    IN  IF fetch = "error" THEN [at |-> "get", err |-> ErrGet, pm |-> none]
        ELSE IF fetch = "notfound" THEN [at |-> "notfound", err |-> NoError, pm |-> none]
        ELSE IF ~hasHolepunchAnnotation(svc) THEN [at |-> "notopted", err |-> NoError, pm |-> none]
        ELSE IF svc.Type # ServiceTypeLoadBalancer THEN [at |-> "notlb", err |-> NoError, pm |-> none]
        ELSE IF pm.err # NoError THEN [at |-> "parse", err |-> pm.err, pm |-> pm]
        ELSE IF rootDesc # "" /\ UrlParse(rootDesc) # NoError
             THEN [at |-> "pick", err |-> UrlParse(rootDesc), pm |-> pm]
        ELSE [at |-> "discover", err |-> NoError, pm |-> pm]

(***************************************************************************)
(* Inputs: the services, the configured descriptor and what the network    *)
(* answers to each variant's discovery.                                    *)
(***************************************************************************)
MapOf(pairs) ==
    [k \in {p[1] : p \in pairs} |-> (CHOOSE p \in pairs : p[1] = k)[2]]

PortKey(digits) ==
    holepunchPortMapAnnotationPrefix \o digits

FlagTrue ==
    <<holepunchAnnotationName, <<"t", "r", "u", "e">>>>

AnnotationChoices ==
    { MapOf({}),
      MapOf({FlagTrue}),
      MapOf({<<holepunchAnnotationName, <<"T", "R", "U", "E">>>>}),
      MapOf({<<holepunchAnnotationName, <<"T", "r", "u", "e">>>>}),
      MapOf({<<holepunchAnnotationName, <<"1">>>>}),
      MapOf({<<holepunchAnnotationName, << >>>>}),
      MapOf({<<holepunchAnnotationName, <<"t", "r", "u", "e", " ">>>>}),
      MapOf({<<<<"a", "p", "p">>, <<"t", "r", "u", "e">>>>}),
      MapOf({<<PortKey(<<"8", "0">>), <<"3", "0", "0", "0">>>>}),
      MapOf({FlagTrue, <<PortKey(<<"8", "0">>), <<"3", "0", "0", "0">>>>}),
      MapOf({FlagTrue, <<PortKey(<<"8", "0">>), <<"3", "0", "0", "0">>>>,
                       <<PortKey(<<"4", "4", "3">>), <<"4", "0", "0", "0">>>>}),
      MapOf({FlagTrue, <<PortKey(<<"8", "0">>), <<"7", "0", "0", "0", "0">>>>}),
      MapOf({FlagTrue, <<PortKey(<<"a", "b", "c">>), <<"1">>>>}),
      MapOf({FlagTrue, <<PortKey(<<"8", "0">>), <<"3", "0", "0", "0">>>>,
                       <<PortKey(<<"4", "4", "3">>), <<"a", "b", "c">>>>}),
      MapOf({FlagTrue, <<PortKey(<<"8", "0">>), <<"3", "0", "0", "0">>>>,
                       <<PortKey(<<"0", "8", "0">>), <<"4", "0", "0", "0">>>>}),
      MapOf({FlagTrue, <<PortKey(<<"8", "0">>), <<"6", "5", "5", "3", "5">>>>}),
      MapOf({FlagTrue, <<PortKey(<<"8", "0">>), <<"6", "5", "5", "3", "6">>>>}),
      MapOf({FlagTrue, <<PortKey(<< >>), <<"1">>>>}),
      MapOf({FlagTrue, <<<<"h", "o", "l", "e", "p", "u", "n", "c", "h", ".", "p", "o", "r", "t">>, <<"a", "b", "c">>>>}) }

TypeChoices ==
    {"LoadBalancer", "ClusterIP"}

PortChoices ==
    { [Port |-> 80, Protocol |-> "TCP"],
      [Port |-> 443, Protocol |-> "UDP"],
      [Port |-> 8080, Protocol |-> "SCTP"] }

PortLists ==
    UNION {[1..n -> PortChoices] : n \in 0..MaxPorts}

IngressChoices ==
    { << >>, <<"", "192.168.1.240">>, <<"192.168.1.241", "192.168.1.240">> }

Service(annotations, type, ports, ingress) ==
    [Name |-> "web", Namespace |-> "default", Annotations |-> annotations,
     Type |-> type, Ports |-> ports, Ingress |-> ingress]

\* every annotation map, type and allocation state on a two-port service;
\* every port list and allocation state on an opted-in service with a remap
Services ==
    {Service(a, t, <<[Port |-> 80, Protocol |-> "TCP"], [Port |-> 443, Protocol |-> "UDP"]>>, i) :
        a \in AnnotationChoices, t \in TypeChoices, i \in {<< >>, <<"", "192.168.1.240">>}}
    \cup
    {Service(MapOf({FlagTrue, <<PortKey(<<"8", "0">>), <<"3", "0", "0", "0">>>>}), t, p, i) :
        t \in TypeChoices, p \in PortLists, i \in IngressChoices}

Empty ==
    [kind |-> "empty", n |-> 0]

Failed ==
    [kind |-> "error", n |-> 0]

Found(n) ==
    [kind |-> "found", n |-> n]

Outcomes ==
    {Empty, Failed} \cup {Found(n) : n \in 1..MaxClients}

\* no variant answers
NoNetwork ==
    [v \in Variants |-> {Empty}]

\* only the oldest dialect answers, with one client
LegacyNetwork ==
    [v \in Variants |-> IF v = "ppp1V1Clients" THEN {Found(1)} ELSE {Empty}]

\* the newest dialect answers or fails, an older one answers
MixedNetwork ==
    [v \in Variants |-> IF v = "ip2Clients" THEN {Found(MaxClients), Failed}
                        ELSE IF v = "ip1V1Clients" THEN {Found(MaxClients)} ELSE {Empty}]

\* the configured descriptor with the network it is run against
Environments ==
    { <<"", NoNetwork>>,
      <<"", LegacyNetwork>>,
      <<"http://192.168.1.1:5000/rootDesc.xml", MixedNetwork>>,
      <<"http://[fe80::1", NoNetwork>> }

\* every variant may answer, answer nothing or fail
AnyNetwork ==
    [v \in Variants |-> {Empty, Failed, Found(MaxClients)}]

\* seconds a discovery round may take, and seconds by which the dispatcher
\* may start a requeued pass late
DiscoveryTimes ==
    {0, 2}

Jitters ==
    {0, 28, 30}


(***************************************************************************)
(* State.                                                                  *)
(*   service, RouterRootDesc, network: the desired-state object, the       *)
(*     configured descriptor and the network, unchanged during a run       *)
(*   pc: "idle", "discovering", "applying", "done": where the pass is      *)
(*   got: what r.Get answered                                              *)
(*   portMapping: the result of getHolepunchPortMapping                    *)
(*   clients, err: the candidate lists and the err variable the five       *)
(*     task closures of PickRouterClient share                             *)
(*   tpc: each task, "idle", "running", "called" (its enumeration has      *)
(*     returned and is assigned) or "returned"                             *)
(*   enumErr: per task, the error of its own enumeration                   *)
(*   groupErr: the first non-nil error a task returned (errgroup)          *)
(*   router, serviceIP, idx: the selected client, the service address and  *)
(*     the position in service.Spec.Ports                                  *)
(*   calls: the device calls of the pass, in order, with their outcome     *)
(*   ret: where Reconcile returned, with which error and requeue delay     *)
(*   table: the gateway's port mappings by <<remote host, external port,   *)
(*     protocol>>, each with the seconds since it was installed (age,      *)
(*     at most the lease duration, where the lease has expired) and how    *)
(*     many passes ago (gen: 0 this pass, 1 the pass before, 2 older)      *)
(*   jitter: seconds by which this pass started after the requested delay  *)
(*   elapsed: seconds since this pass started                              *)
(*   cancelled: the dispatcher has cancelled the invocation                *)
(*   previous: whether a pass was applied before this one, with the        *)
(*     AddPortMapping requests it issued and the mappings the gateway      *)
(*     held when it returned                                               *)
(***************************************************************************)
VARIABLES service, RouterRootDesc, network, pc, got, portMapping, clients, err,
          tpc, enumErr, groupErr, router, serviceIP, idx, calls, ret,
          table, jitter, elapsed, cancelled, previous

vars ==
    <<service, RouterRootDesc, network, pc, got, portMapping, clients, err,
      tpc, enumErr, groupErr, router, serviceIP, idx, calls, ret,
      table, jitter, elapsed, cancelled, previous>>

NoReturn ==
    [at |-> "", err |-> NoError, RequeueAfter |-> 0]

NoPortMapping ==
    [isNil |-> TRUE, portMapping |-> EmptyMap, err |-> NoError]

NoPrevious ==
    [applied |-> FALSE, requests |-> << >>, mappings |-> EmptyMap]

\* the arguments of an AddPortMapping call
Arguments(c) ==
    [NewRemoteHost |-> c.NewRemoteHost, NewExternalPort |-> c.NewExternalPort,
     NewProtocol |-> c.NewProtocol, NewInternalPort |-> c.NewInternalPort,
     NewInternalClient |-> c.NewInternalClient, NewEnabled |-> c.NewEnabled,
     NewPortMappingDescription |-> c.NewPortMappingDescription,
     NewLeaseDuration |-> c.NewLeaseDuration]

\* the arguments of the AddPortMapping requests among the calls cs, in order
Requests(cs) ==
    LET a == SelectSeq(cs, LAMBDA c : c.op = "AddPortMapping")
    IN  [i \in 1..Len(a) |-> Arguments(a[i])]

\* the mappings the gateway holds, without the time they have been held
Mappings(t) ==
    [k \in DOMAIN t |->
        [NewInternalPort |-> t[k].NewInternalPort,
         NewInternalClient |-> t[k].NewInternalClient,
         NewEnabled |-> t[k].NewEnabled,
         NewPortMappingDescription |-> t[k].NewPortMappingDescription,
         NewLeaseDuration |-> t[k].NewLeaseDuration]]

Min(a, b) ==
    IF a < b THEN a ELSE b

\* the gateway's table d seconds later
Aged(t, d) ==
    [k \in DOMAIN t |-> [t[k] EXCEPT !.age = Min(@ + d, t[k].NewLeaseDuration)]]

\* the table when the next pass starts: what was installed is one pass older
Older(t) ==
    [k \in DOMAIN t |-> [t[k] EXCEPT !.gen = Min(@ + 1, 2)]]

Expired(entry) ==
    entry.age >= entry.NewLeaseDuration

InitPass ==
    /\ pc = "idle"
    /\ got = ""
    /\ portMapping = NoPortMapping
    /\ clients = [v \in Variants |-> << >>]
    /\ err = NoError
    /\ tpc = [v \in Variants |-> "idle"]
    /\ enumErr = [v \in Variants |-> NoError]
    /\ groupErr = NoError
    /\ router = NoRouter
    /\ serviceIP = ""
    /\ idx = 0
    /\ calls = << >>
    /\ ret = NoReturn
    /\ table = EmptyMap
    /\ jitter = 0
    /\ elapsed = 0
    /\ cancelled = FALSE
    /\ previous = NoPrevious

Init ==
    /\ service \in Services
    /\ \E env \in Environments : RouterRootDesc = env[1] /\ network = env[2]
    /\ InitPass

\* PickRouterClient against every network, for one service
InitPick ==
    /\ service = Service(MapOf({FlagTrue}), "LoadBalancer", <<[Port |-> 80, Protocol |-> "TCP"]>>,
                         <<"192.168.1.240">>)
    /\ RouterRootDesc \in {"", "http://[fe80::1"}
    /\ network = AnyNetwork
    /\ InitPass

(***************************************************************************)
(* Reconcile, from its entry to the launch of the five discovery tasks in  *)
(* PickRouterClient, or to the return that comes first.                    *)
(***************************************************************************)
Reconcile(fetch, order) ==
    /\ pc = "idle"
    /\ LET e == ReconcileEntry(service, RouterRootDesc, fetch, order)
       IN  /\ got' = fetch
           /\ portMapping' = e.pm
           /\ err' = NoError
           /\ IF e.at = "discover"
              THEN /\ pc' = "discovering"
                   /\ tpc' = [v \in Variants |-> "running"]
                   /\ ret' = NoReturn
              ELSE /\ pc' = "done"
                   /\ tpc' = tpc
                   /\ ret' = [at |-> e.at, err |-> e.err, RequeueAfter |-> 0]
    /\ UNCHANGED <<service, RouterRootDesc, network, cancelled, previous, clients, enumErr,
                   groupErr, router, serviceIP, idx, calls, table, jitter, elapsed>>

(***************************************************************************)
(* A discovery task: its enumeration returns and is assigned to the        *)
(* task's list and to the shared err; then the task returns err.           *)
(***************************************************************************)
\* a task that gives up once a task of the group has returned an error
TaskCallUnlessGroupFailed(v, o) ==
    /\ pc = "discovering"
    /\ tpc[v] = "running"
    /\ groupErr = NoError
    /\ o \in network[v]
    /\ LET e == Enumeration(v, o)
       IN  /\ clients' = [clients EXCEPT ![v] = e.clients]
           /\ err' = e.err
           /\ enumErr' = [enumErr EXCEPT ![v] = e.err]
    /\ tpc' = [tpc EXCEPT ![v] = "called"]
    /\ UNCHANGED <<service, RouterRootDesc, network, cancelled, previous, pc, got, portMapping,
                   groupErr, router, serviceIP, idx, calls, ret, table, jitter, elapsed>>

TaskCall(v, o) ==
    /\ pc = "discovering"
    /\ tpc[v] = "running"
    /\ o \in network[v]
    /\ LET e == Enumeration(v, o)
       IN  /\ clients' = [clients EXCEPT ![v] = e.clients]
           /\ err' = e.err
           /\ enumErr' = [enumErr EXCEPT ![v] = e.err]
    /\ tpc' = [tpc EXCEPT ![v] = "called"]
    /\ UNCHANGED <<service, RouterRootDesc, network, cancelled, previous, pc, got, portMapping,
                   groupErr, router, serviceIP, idx, calls, ret, table, jitter, elapsed>>

TaskReturn(v) ==
    /\ pc = "discovering"
    /\ tpc[v] = "called"
    /\ groupErr' = IF groupErr = NoError THEN err ELSE groupErr
    /\ tpc' = [tpc EXCEPT ![v] = "returned"]
    /\ UNCHANGED <<service, RouterRootDesc, network, cancelled, previous, pc, got, portMapping, clients, err,
                   enumErr, router, serviceIP, idx, calls, ret, table, jitter, elapsed>>

(***************************************************************************)
(* tasks.Wait() returns after d seconds of discovery; the selection, the   *)
(* query of the router's external address (which answers or fails) and     *)
(* getServiceIP follow.                                                    *)
(***************************************************************************)
\* a pass that queries the router before it looks at the selection's error
AfterDiscoveryQueryFirst(svc, sel, extOk) ==
    LET q == <<[op |-> "GetExternalIPAddress", router |-> sel.router, ok |-> extOk]>>
    IN  IF sel.err # NoError THEN [at |-> "pick", err |-> sel.err, calls |-> q]
        ELSE IF ~extOk THEN [at |-> "extip", err |-> ErrGetExternalIPAddress, calls |-> q]
        ELSE IF getServiceIP(svc).err # NoError
        THEN [at |-> "noip", err |-> getServiceIP(svc).err, calls |-> q]
        ELSE [at |-> "apply", err |-> NoError, calls |-> q]

\* a pass that goes on when the query of the external address has failed
AfterDiscoveryIgnoreQueryError(svc, sel, extOk) ==
    IF sel.err # NoError THEN [at |-> "pick", err |-> sel.err, calls |-> << >>]
    ELSE LET q == <<[op |-> "GetExternalIPAddress", router |-> sel.router, ok |-> extOk]>>
         IN  IF getServiceIP(svc).err # NoError
             THEN [at |-> "noip", err |-> getServiceIP(svc).err, calls |-> q]
             ELSE [at |-> "apply", err |-> NoError, calls |-> q]

AfterDiscovery(svc, sel, extOk) ==
    IF sel.err # NoError THEN [at |-> "pick", err |-> sel.err, calls |-> << >>]
    ELSE LET q == <<[op |-> "GetExternalIPAddress", router |-> sel.router, ok |-> extOk]>>
         IN  IF ~extOk THEN [at |-> "extip", err |-> ErrGetExternalIPAddress, calls |-> q]
             ELSE IF getServiceIP(svc).err # NoError
             THEN [at |-> "noip", err |-> getServiceIP(svc).err, calls |-> q]
             ELSE [at |-> "apply", err |-> NoError, calls |-> q]

WaitAndQuery(d, extOk) ==
    /\ pc = "discovering"
    /\ \A v \in Variants : tpc[v] = "returned"
    /\ LET sel == SelectClient(clients, groupErr)
           a == AfterDiscovery(service, sel, extOk)
       IN  /\ router' = sel.router
           /\ calls' = a.calls
           /\ IF a.at = "apply"
              THEN /\ pc' = "applying"
                   /\ serviceIP' = getServiceIP(service).ip
                   /\ idx' = 1
                   /\ ret' = ret
              ELSE /\ pc' = "done"
                   /\ serviceIP' = serviceIP
                   /\ idx' = idx
                   /\ ret' = [at |-> a.at, err |-> a.err, RequeueAfter |-> 0]
    /\ elapsed' = elapsed + d
    /\ table' = Aged(table, d)
    /\ UNCHANGED <<service, RouterRootDesc, network, cancelled, previous, got, portMapping, clients, err,
                   tpc, enumErr, groupErr, jitter>>


(***************************************************************************)
(* One turn of the loop over service.Spec.Ports: the protocol is           *)
(* resolved, the external port is looked up and AddPortMapping is called   *)
(* on the router, which installs the mapping or refuses.                   *)
(***************************************************************************)
\* a lookup that leaves the remap aside
ExternalPortIdentity(pm, portNumber) ==
    portNumber

\* the lookup in portMapping, with the port itself as the default
ExternalPort(pm, portNumber) ==
    IF portNumber \in DOMAIN pm THEN pm[portNumber] ELSE portNumber

PortRequest(svc, pm, ip, rtr, i) ==
    LET portNumber == Uint16(svc.Ports[i].Port)
        p == toUPnPProtocol(svc.Ports[i].Protocol)
    IN  [err |-> p.err,
         op |-> "AddPortMapping",
         router |-> rtr,
         NewRemoteHost |-> "",
         NewExternalPort |-> ExternalPort(pm, portNumber),
         NewProtocol |-> p.protocol,
         NewInternalPort |-> portNumber,
         NewInternalClient |-> ip,
         NewEnabled |-> TRUE,
         NewPortMappingDescription |-> Description(svc),
         NewLeaseDuration |-> leaseDurationSeconds]

Call(req, ok) ==
    [op |-> req.op, router |-> req.router, NewRemoteHost |-> req.NewRemoteHost,
     NewExternalPort |-> req.NewExternalPort, NewProtocol |-> req.NewProtocol,
     NewInternalPort |-> req.NewInternalPort, NewInternalClient |-> req.NewInternalClient,
     NewEnabled |-> req.NewEnabled,
     NewPortMappingDescription |-> req.NewPortMappingDescription,
     NewLeaseDuration |-> req.NewLeaseDuration, ok |-> ok]

MappingKey(req) ==
    <<req.NewRemoteHost, req.NewExternalPort, req.NewProtocol>>

\* the gateway's table once it has accepted the request
Installed(t, req) ==
    MapPut(t, MappingKey(req),
           [NewInternalPort |-> req.NewInternalPort,
            NewInternalClient |-> req.NewInternalClient,
            NewEnabled |-> req.NewEnabled,
            NewPortMappingDescription |-> req.NewPortMappingDescription,
            NewLeaseDuration |-> req.NewLeaseDuration,
            age |-> 0, gen |-> 0])

\* a loop that goes on to the next port when a request has failed
PortStepContinue(req, ok) ==
    IF req.err # NoError THEN [at |-> "proto", err |-> req.err, called |-> FALSE]
    ELSE [at |-> "next", err |-> NoError, called |-> TRUE]

\* what the loop does with the outcome of one turn: "next", or where it returns
PortStep(req, ok) ==
    IF req.err # NoError THEN [at |-> "proto", err |-> req.err, called |-> FALSE]
    ELSE IF ~ok THEN [at |-> "add", err |-> ErrAddPortMapping, called |-> TRUE]
    ELSE [at |-> "next", err |-> NoError, called |-> TRUE]

ApplyPort(ok) ==
    /\ pc = "applying"
    /\ idx <= Len(service.Ports)
    /\ LET req == PortRequest(service, portMapping.portMapping, serviceIP, router, idx)
           step == PortStep(req, ok)
       IN  /\ calls' = IF step.called THEN Append(calls, Call(req, ok)) ELSE calls
           /\ table' = IF step.called /\ ok THEN Installed(table, req) ELSE table
           /\ IF step.at = "next"
              THEN /\ idx' = idx + 1
                   /\ pc' = pc
                   /\ ret' = ret
              ELSE /\ idx' = idx
                   /\ pc' = "done"
                   /\ ret' = [at |-> step.at, err |-> step.err, RequeueAfter |-> 0]
    /\ UNCHANGED <<service, RouterRootDesc, network, cancelled, previous, got, portMapping, clients, err,
                   tpc, enumErr, groupErr, router, serviceIP, jitter, elapsed>>

\* a return whose delay is shortened by the time the pass has taken
AppliedMinusElapsed ==
    /\ pc = "applying"
    /\ idx > Len(service.Ports)
    /\ pc' = "done"
    /\ ret' = [at |-> "applied", err |-> NoError, RequeueAfter |-> RequeueAfter - elapsed]
    /\ UNCHANGED <<service, RouterRootDesc, network, cancelled, previous, got, portMapping, clients, err,
                   tpc, enumErr, groupErr, router, serviceIP, idx, calls,
                   table, jitter, elapsed>>

\* the return after the loop
Applied ==
    /\ pc = "applying"
    /\ idx > Len(service.Ports)
    /\ pc' = "done"
    /\ ret' = [at |-> "applied", err |-> NoError, RequeueAfter |-> RequeueAfter]
    /\ UNCHANGED <<service, RouterRootDesc, network, cancelled, previous, got, portMapping, clients, err,
                   tpc, enumErr, groupErr, router, serviceIP, idx, calls,
                   table, jitter, elapsed>>

(***************************************************************************)
(* The dispatcher honours a requested requeue delay: it starts the next    *)
(* pass for the same service j seconds after the delay has run out.        *)
(***************************************************************************)
Requeue(j) ==
    /\ pc = "done"
    /\ ~cancelled
    /\ ret.err = NoError
    /\ ret.RequeueAfter > 0
    /\ pc' = "idle"
    /\ got' = ""
    /\ portMapping' = NoPortMapping
    /\ clients' = [v \in Variants |-> << >>]
    /\ err' = NoError
    /\ tpc' = [v \in Variants |-> "idle"]
    /\ enumErr' = [v \in Variants |-> NoError]
    /\ groupErr' = NoError
    /\ router' = NoRouter
    /\ serviceIP' = ""
    /\ idx' = 0
    /\ calls' = << >>
    /\ ret' = NoReturn
    /\ table' = Aged(Older(table), ret.RequeueAfter + j)
    /\ jitter' = j
    /\ elapsed' = 0
    /\ previous' = [applied |-> ret.at = "applied", requests |-> Requests(calls),
                    mappings |-> Mappings(table)]
    /\ UNCHANGED <<service, RouterRootDesc, network, cancelled>>

(***************************************************************************)
(* The dispatcher cancels the invocation (a shutdown) while the pass is in *)
(* discovery or in port application. Reconcile works on                    *)
(* context.Background(), PickRouterClient drops the context that           *)
(* errgroup.WithContext derives, and neither the enumerations nor          *)
(* AddPortMapping take a context: no step of the pass reads "cancelled".   *)
(***************************************************************************)
Cancel ==
    /\ pc \in {"discovering", "applying"}
    /\ ~cancelled
    /\ cancelled' = TRUE
    /\ UNCHANGED <<service, RouterRootDesc, network, previous, pc, got, portMapping, clients, err,
                   tpc, enumErr, groupErr, router, serviceIP, idx, calls, ret,
                   table, jitter, elapsed>>

Next ==
    \/ \E fetch \in {"found", "notfound", "error"}, order \in IterationOrders(service.Annotations) :
           Reconcile(fetch, order)
    \/ \E v \in Variants, o \in Outcomes : TaskCall(v, o)
    \/ \E v \in Variants : TaskReturn(v)
    \/ \E d \in DiscoveryTimes, extOk \in BOOLEAN : WaitAndQuery(d, extOk)
    \/ \E ok \in BOOLEAN : ApplyPort(ok)
    \/ Applied
    \/ \E j \in Jitters : Requeue(j)
    \/ Cancel

Spec ==
    Init /\ [][Next]_vars

SpecPick ==
    InitPick /\ [][Next]_vars


(***************************************************************************)
(* Vocabulary of the properties.                                           *)
(***************************************************************************)
\* the AddPortMapping requests of the pass, in the order they were issued
AddCalls ==
    SelectSeq(calls, LAMBDA c : c.op = "AddPortMapping")

AllReturned ==
    \A v \in Variants : tpc[v] = "returned"

NoTaskLaunched ==
    \A v \in Variants : tpc[v] = "idle"

AllListsEmpty ==
    \A v \in Variants : clients[v] = << >>

\* the metadata carries the flag key with the value "true"
FlagIsTrue(svc) ==
    /\ holepunchAnnotationName \in DOMAIN svc.Annotations
    /\ svc.Annotations[holepunchAnnotationName] = <<"t", "r", "u", "e">>

HasAllocatedAddress(svc) ==
    \E i \in 1..Len(svc.Ingress) : svc.Ingress[i] # ""

\* the fixed priority order of the candidate lists
Priority ==
    <<"ip2Clients", "ip1Clients", "ppp1Clients", "ip1V1Clients", "ppp1V1Clients">>

\* the pass has selected a gateway or given up after tasks.Wait()
Selected ==
    AllReturned /\ pc \in {"applying", "done"}

\* Reconcile has reached the call of getHolepunchPortMapping
Parsed ==
    /\ pc # "idle"
    /\ got = "found"
    /\ FlagIsTrue(service)
    /\ service.Type = ServiceTypeLoadBalancer

\* the keys of the metadata that carry the port-remap prefix
PrefixedKeys(annotations) ==
    {k \in DOMAIN annotations : HasPrefix(k, holepunchPortMapAnnotationPrefix)}

\* the number a string of decimal digits denotes
RECURSIVE DecimalValue(_)
DecimalValue(s) ==
    IF s = << >> THEN 0
    ELSE 10 * DecimalValue(SubSeq(s, 1, Len(s) - 1)) + DigitValue(s[Len(s)])

\* s is an unsigned base-10 integer in 0..65535
IsPortNumber(s) ==
    /\ s # << >>
    /\ \A i \in 1..Len(s) : IsDigit(s[i])
    /\ DecimalValue(s) <= MaxUint16

\* the pair under the prefixed key k has a numeric suffix and a numeric value
ValidPair(annotations, k) ==
    /\ IsPortNumber(TrimPrefix(k, holepunchPortMapAnnotationPrefix))
    /\ IsPortNumber(annotations[k])

(***************************************************************************)
(* C1. As claimed: when the next pass starts at most 30 seconds after the  *)
(* requested delay, no lease installed by the earlier pass has expired     *)
(* before the next pass re-issues it.                                      *)
(***************************************************************************)
C1_LeaseNeverExpires ==
    \A k \in DOMAIN table :
        (table[k].gen = 1 /\ jitter <= safetyMarginSeconds) => ~Expired(table[k])

(***************************************************************************)
(* C1, amended. A lease installed by the earlier pass is unexpired at      *)
(* every moment of the next pass at which the lateness of its start plus   *)
(* the time it has been running is below the 30 seconds of the margin.     *)
(***************************************************************************)
C1_LeaseHeldWithinMargin ==
    \A k \in DOMAIN table :
        (table[k].gen = 1 /\ jitter + elapsed < safetyMarginSeconds) => ~Expired(table[k])

\* a late pass whose discovery was immediate has re-issued every lease in time
C1_Witness ==
    /\ pc = "done"
    /\ ret.at = "applied"
    /\ jitter = 28
    /\ elapsed = 0
    /\ DOMAIN table # {}
    /\ \A k \in DOMAIN table : table[k].gen = 0

(***************************************************************************)
(* C2. The AddPortMapping requests of a pass are those of the declared     *)
(* ports, in the declared order; a request that fails is the last one of   *)
(* the pass and the pass returns its error; a pass that ends Applied has   *)
(* issued one request per declared port.                                   *)
(***************************************************************************)
C2_DeclaredOrderStopAtFailure ==
    LET a == AddCalls
    IN  /\ Len(a) <= Len(service.Ports)
        /\ \A i \in 1..Len(a) :
               /\ a[i].NewInternalPort = service.Ports[i].Port
               /\ a[i].NewProtocol = service.Ports[i].Protocol
               /\ ~a[i].ok => /\ i = Len(a)
                              /\ pc = "done"
                              /\ ret.at = "add"
                              /\ ret.err = ErrAddPortMapping
        /\ (pc = "done" /\ ret.at = "applied") => Len(a) = Len(service.Ports)

\* the request for the first of two ports failed and nothing followed
C2_Witness ==
    /\ pc = "done"
    /\ Len(service.Ports) = 2
    /\ Len(AddCalls) = 1
    /\ ~AddCalls[1].ok
    /\ ret.err = ErrAddPortMapping

(***************************************************************************)
(* C3. Once the five tasks have completed, in whatever order, the selected *)
(* client is the first candidate of the first non-empty list in the        *)
(* priority order.                                                         *)
(***************************************************************************)
C3_PriorityDeterministic ==
    Selected =>
        \A i \in 1..Len(Priority) :
            (/\ clients[Priority[i]] # << >>
             /\ \A j \in 1..(i - 1) : clients[Priority[j]] = << >>)
            => /\ router = clients[Priority[i]][1]
               /\ ret.at # "pick"

\* several lists are non-empty and the winner is neither the first launched
\* nor the last
C3_Witness ==
    /\ Selected
    /\ clients["ip2Clients"] = << >>
    /\ clients["ip1Clients"] = << >>
    /\ Len(clients["ppp1Clients"]) = 2
    /\ Len(clients["ip1V1Clients"]) = 2
    /\ Len(clients["ppp1V1Clients"]) = 2
    /\ router = <<"ppp1Clients", 1>>

(***************************************************************************)
(* C4. As claimed: PickRouterClient fails only after all tasks have        *)
(* completed with every list empty, and then with "No services found";     *)
(* nothing else makes it fail.                                             *)
(***************************************************************************)
C4_FailsIffAllEmpty ==
    /\ (pc = "done" /\ ret.at = "pick")
           => (AllReturned /\ AllListsEmpty /\ ret.err = ErrNoServicesFound)
    /\ (Selected /\ AllListsEmpty) => (ret.at = "pick" /\ ret.err = ErrNoServicesFound)

(***************************************************************************)
(* C4, amended. With no descriptor configured, or one that parses,         *)
(* PickRouterClient fails if and only if every list is empty once all      *)
(* tasks have completed, and then with "No services found", whatever the   *)
(* tasks returned; a descriptor that does not parse makes it fail with     *)
(* the parse error before any task is launched.                            *)
(***************************************************************************)
C4_FailsIffAllEmptyOrBadURL ==
    /\ (pc = "done" /\ ret.at = "pick") =>
           IF RouterRootDesc # "" /\ UrlParse(RouterRootDesc) # NoError
           THEN NoTaskLaunched /\ ret.err = ErrURL
           ELSE AllReturned /\ AllListsEmpty /\ ret.err = ErrNoServicesFound
    /\ Selected =>
           IF AllListsEmpty
           THEN pc = "done" /\ ret.at = "pick" /\ ret.err = ErrNoServicesFound
           ELSE ret.at # "pick" /\ router # NoRouter

\* a task failed, another found clients, and a client was selected
C4_Witness ==
    /\ Selected
    /\ enumErr["ip2Clients"] # NoError
    /\ clients["ip1V1Clients"] # << >>
    /\ router = <<"ip1V1Clients", 1>>

(***************************************************************************)
(* C5. As claimed: a pass ends Applied only if a request succeeded for     *)
(* every declared port, and every pass in which a step failed returns an   *)
(* error and no requeue delay.                                             *)
(***************************************************************************)
C5_NoFailureReportedAsSuccess ==
    pc = "done" =>
        /\ (ret.err = NoError /\ ret.RequeueAfter > 0) =>
               /\ Len(AddCalls) = Len(service.Ports)
               /\ \A i \in 1..Len(AddCalls) : AddCalls[i].ok
        /\ ret.at \notin {"notfound", "notopted", "applied"} =>
               /\ ret.err # NoError
               /\ ret.RequeueAfter = 0

(***************************************************************************)
(* C6. As claimed: a pass for an opted-in service that is no LoadBalancer  *)
(* returns an error, launches no discovery, makes no device call and       *)
(* requests no requeue.                                                    *)
(***************************************************************************)
C6_NotLoadBalancerIsAnError ==
    (pc = "done" /\ got = "found" /\ FlagIsTrue(service)
                 /\ service.Type # ServiceTypeLoadBalancer) =>
        /\ ret.err # NoError
        /\ ret.RequeueAfter = 0
        /\ NoTaskLaunched
        /\ calls = << >>

(***************************************************************************)
(* C7. As claimed, for the passes whose remap annotations and configured   *)
(* descriptor parse: a pass for an opted-in LoadBalancer service without   *)
(* an allocated address ends with the "no IP available" error, whatever    *)
(* the gateway does, and issues no AddPortMapping request.                 *)
(***************************************************************************)
C7_NoAddressFailsFirst ==
    (pc = "done" /\ got = "found" /\ FlagIsTrue(service)
                 /\ service.Type = ServiceTypeLoadBalancer
                 /\ ~HasAllocatedAddress(service)
                 /\ portMapping.err = NoError
                 /\ UrlParse(RouterRootDesc) = NoError) =>
        /\ ret.err = ErrNoIP
        /\ AddCalls = << >>

(***************************************************************************)
(* C8. When all tasks have completed with every list empty, the pass ends  *)
(* with "No services found", has made no device call at all and requests   *)
(* no requeue.                                                             *)
(***************************************************************************)
C8_NoGatewayNoCalls ==
    (pc = "done" /\ AllReturned /\ AllListsEmpty) =>
        /\ ret.at = "pick"
        /\ ret.err = ErrNoServicesFound
        /\ ret.RequeueAfter = 0
        /\ calls = << >>

\* no list has a candidate, one enumeration failed, the pass has ended
C8_Witness ==
    /\ pc = "done"
    /\ AllReturned
    /\ AllListsEmpty
    /\ enumErr["ip1Clients"] # NoError
    /\ enumErr["ppp1Clients"] = NoError
    /\ ret.err = ErrNoServicesFound

(***************************************************************************)
(* C9. No AddPortMapping request carries a protocol other than TCP or UDP; *)
(* a pass that meets a port with another protocol returns the "protocol    *)
(* type not supported" error for it, having issued exactly the requests    *)
(* of the ports before it, all of which are still installed on the         *)
(* gateway, and no other device call than the address query.               *)
(***************************************************************************)
C9_UnsupportedProtocolStops ==
    LET a == AddCalls
    IN  /\ \A i \in 1..Len(a) : a[i].NewProtocol \in {"TCP", "UDP"}
        /\ (pc = "done" /\ ret.at = "applied") =>
               \A i \in 1..Len(service.Ports) : service.Ports[i].Protocol \in {ProtocolTCP, ProtocolUDP}
        /\ (pc = "done" /\ ret.at = "proto") =>
               /\ service.Ports[idx].Protocol \notin {ProtocolTCP, ProtocolUDP}
               /\ ret.err = ErrProtocol(service.Ports[idx].Protocol)
               /\ ret.RequeueAfter = 0
               /\ Len(a) = idx - 1
               /\ Len(calls) = idx
               /\ \A i \in 1..Len(a) :
                      /\ a[i].ok
                      /\ MappingKey(a[i]) \in DOMAIN table
                      /\ ~Expired(table[MappingKey(a[i])])
                      /\ table[MappingKey(a[i])].NewInternalPort = a[i].NewInternalPort

\* the second port has an unsupported protocol, the mapping of the first stays
C9_Witness ==
    /\ pc = "done"
    /\ ret.at = "proto"
    /\ idx = 2
    /\ Len(AddCalls) = 1
    /\ MappingKey(AddCalls[1]) \in DOMAIN table

(***************************************************************************)
(* C10. A pass for a service that was found goes past the opt-in test if   *)
(* and only if the metadata has the flag key with the value "true"         *)
(* exactly.                                                                *)
(***************************************************************************)
C10_OptedInIffExactlyTrue ==
    (pc # "idle" /\ got = "found") =>
        ((pc = "done" /\ ret.at = "notopted") <=> ~FlagIsTrue(service))

\* the flag key is there with the value "TRUE" and the pass has skipped
C10_Witness ==
    /\ pc = "done"
    /\ ret.at = "notopted"
    /\ holepunchAnnotationName \in DOMAIN service.Annotations
    /\ service.Annotations[holepunchAnnotationName] = <<"T", "R", "U", "E">>

(***************************************************************************)
(* C11. When at least one pair under the port-remap prefix has a suffix or *)
(* a value that is no unsigned base-10 integer in 0..65535, the parse      *)
(* returns an error and a nil map, in whatever order the pairs are         *)
(* visited and however many other pairs are valid, and the pass returns    *)
(* that error.                                                             *)
(***************************************************************************)
C11_MalformedPairFailsWhole ==
    (/\ Parsed
     /\ \E k \in PrefixedKeys(service.Annotations) : ~ValidPair(service.Annotations, k)) =>
        /\ portMapping.err \in {ErrSyntax, ErrRange}
        /\ portMapping.isNil
        /\ portMapping.portMapping = EmptyMap
        /\ pc = "done"
        /\ ret.at = "parse"
        /\ ret.err = portMapping.err

\* one pair is valid, the value of the other is not numeric, the parse failed
C11_Witness ==
    /\ Parsed
    /\ \E k \in PrefixedKeys(service.Annotations) : ValidPair(service.Annotations, k)
    /\ \E k \in PrefixedKeys(service.Annotations) :
           service.Annotations[k] = <<"a", "b", "c">>
    /\ portMapping.isNil
    /\ portMapping.err = ErrSyntax
    /\ ret.at = "parse"

(***************************************************************************)
(* C12. As claimed: when every pair under the port-remap prefix is valid,  *)
(* the parse succeeds and returns the map that has exactly one entry per   *)
(* prefixed key, from the number of its suffix to the number of its value; *)
(* the other keys, the flag key among them, contribute no entry.           *)
(***************************************************************************)
C12_OneEntryPerPrefixedKey ==
    (/\ Parsed
     /\ \A k \in PrefixedKeys(service.Annotations) : ValidPair(service.Annotations, k)) =>
        LET pm == portMapping.portMapping
            keys == PrefixedKeys(service.Annotations)
            internalPort(k) == DecimalValue(TrimPrefix(k, holepunchPortMapAnnotationPrefix))
        IN  /\ portMapping.err = NoError
            /\ ~portMapping.isNil
            /\ Cardinality(DOMAIN pm) = Cardinality(keys)
            /\ \A k \in keys :
                   /\ internalPort(k) \in DOMAIN pm
                   /\ pm[internalPort(k)] = DecimalValue(service.Annotations[k])

(***************************************************************************)
(* C13. The request issued for a declared port p has internal port p and,  *)
(* as its external port, the entry of the parsed remap for p where there   *)
(* is one and p itself where there is none.                                *)
(***************************************************************************)
C13_ExternalPortRemapOrIdentity ==
    LET a == AddCalls
        pm == portMapping.portMapping
    IN  \A i \in 1..Len(a) :
            LET p == service.Ports[i].Port
            IN  /\ a[i].NewInternalPort = p
                /\ p \in DOMAIN pm => a[i].NewExternalPort = pm[p]
                /\ p \notin DOMAIN pm => a[i].NewExternalPort = p

\* the remap is {80: 3000}; port 80 went out as 3000 and port 443 as 443
C13_Witness ==
    /\ pc = "done"
    /\ ret.at = "applied"
    /\ portMapping.portMapping = MapPut(EmptyMap, 80, 3000)
    /\ Len(AddCalls) = 2
    /\ AddCalls[1].NewInternalPort = 80
    /\ AddCalls[1].NewExternalPort = 3000
    /\ AddCalls[2].NewInternalPort = 443
    /\ AddCalls[2].NewExternalPort = 443

(***************************************************************************)
(* C14. A pass that ends Applied returns no error and a requeue delay of   *)
(* exactly 3570 seconds, the lease duration less the 30 seconds of the     *)
(* margin, however many ports it has applied and however long it took.     *)
(***************************************************************************)
C14_AppliedRequeuesAt3570 ==
    (pc = "done" /\ ret.at = "applied") =>
        /\ ret.err = NoError
        /\ ret.RequeueAfter = 3570
        /\ ret.RequeueAfter = leaseDurationSeconds - safetyMarginSeconds

\* two ports applied by a pass whose discovery took two seconds
C14_Witness ==
    /\ pc = "done"
    /\ ret.at = "applied"
    /\ Len(AddCalls) = 2
    /\ elapsed = 2
    /\ ret.RequeueAfter = 3570

(***************************************************************************)
(* C15. A pass whose object is not found, or whose service is not opted    *)
(* in, ends Skipped whatever the rest of the service is: it returns no     *)
(* error and no requeue delay, launches no discovery task and makes no     *)
(* device call, and the step that takes it leaves the gateway's table as   *)
(* it was.                                                                 *)
(***************************************************************************)
SkipCase ==
    /\ pc # "idle"
    /\ \/ got = "notfound"
       \/ got = "found" /\ ~FlagIsTrue(service)

C15_SkippedDoesNothing ==
    /\ [](SkipCase =>
            /\ pc = "done"
            /\ ret.at = (IF got = "notfound" THEN "notfound" ELSE "notopted")
            /\ ret.err = NoError
            /\ ret.RequeueAfter = 0
            /\ NoTaskLaunched
            /\ router = NoRouter
            /\ calls = << >>)
    /\ [][(pc = "idle" /\ SkipCase') => table' = table]_vars

\* the service was removed after a pass had installed its mappings: the next
\* pass is skipped and the mappings are still in the table
C15_Witness ==
    /\ pc = "done"
    /\ ret.at = "notfound"
    /\ service.Type = ServiceTypeLoadBalancer
    /\ FlagIsTrue(service)
    /\ DOMAIN table # {}
    /\ calls = << >>

(***************************************************************************)
(* C16. As claimed: once the invocation has been cancelled the pass issues *)
(* no further AddPortMapping request, and a pass that has returned has     *)
(* left no discovery task running.                                         *)
(***************************************************************************)
C16_CancellationObserved ==
    /\ [](pc = "done" => \A v \in Variants : tpc[v] \in {"idle", "returned"})
    /\ [][cancelled =>
             Len(SelectSeq(calls', LAMBDA c : c.op = "AddPortMapping")) <= Len(AddCalls)]_vars

(***************************************************************************)
(* C17. As claimed: a discovery task is launched or a device call made     *)
(* only for a service that is opted in, is a LoadBalancer and has an       *)
(* allocated address.                                                      *)
(***************************************************************************)
C17_DiscoveryOnlyAfterValidation ==
    (~NoTaskLaunched \/ calls # << >>) =>
        /\ got = "found"
        /\ FlagIsTrue(service)
        /\ service.Type = ServiceTypeLoadBalancer
        /\ HasAllocatedAddress(service)

(***************************************************************************)
(* C18. While a task of PickRouterClient has not returned, no client is    *)
(* selected and the pass neither returns nor calls the device; a pass that *)
(* has gone past discovery has all five tasks returned; and whatever the   *)
(* other tasks have returned, errors included, a task that is still        *)
(* running can complete its enumeration and return.                        *)
(***************************************************************************)
C18_SelectionAfterAllTasks ==
    /\ pc = "discovering" =>
           /\ router = NoRouter
           /\ calls = << >>
           /\ ret = NoReturn
    /\ (pc \in {"applying", "done"} /\ ~NoTaskLaunched) => AllReturned
    /\ pc = "discovering" =>
           \A v \in Variants :
               /\ tpc[v] = "running" => ENABLED (\E o \in network[v] : TaskCall(v, o))
               /\ tpc[v] = "called" => ENABLED TaskReturn(v)

\* four enumerations failed, the fifth still completed and gave the client
C18_Witness ==
    /\ Selected
    /\ \A v \in Variants \ {"ppp1V1Clients"} : enumErr[v] # NoError
    /\ groupErr # NoError
    /\ clients["ppp1V1Clients"] # << >>
    /\ router = <<"ppp1V1Clients", 1>>
    /\ ret.at # "pick"

(***************************************************************************)
(* C19. As claimed: the tasks share no state, so the error a task returns  *)
(* (the value of err when it returns) is the error of its own enumeration, *)
(* in every interleaving.                                                  *)
(***************************************************************************)
C19_TaskReturnsOwnError ==
    [][\A v \in Variants :
           (tpc[v] = "called" /\ tpc'[v] = "returned") => err = enumErr[v]]_vars

(***************************************************************************)
(* C20. As claimed: once the tasks have completed, a client is selected    *)
(* whenever some list is non-empty, whatever errors the tasks returned;    *)
(* and when every list is empty and some enumeration failed, the selection *)
(* fails with an error that carries the error of a failed enumeration.     *)
(***************************************************************************)
C20_FailureCarriesTaskErrors ==
    Selected =>
        /\ ~AllListsEmpty => (router # NoRouter /\ ret.at # "pick")
        /\ (AllListsEmpty /\ \E v \in Variants : enumErr[v] # NoError) =>
               /\ pc = "done"
               /\ ret.at = "pick"
               /\ \E v \in Variants :
                      /\ enumErr[v] # NoError
                      /\ \A i \in 1..Len(enumErr[v]) :
                             \E j \in 1..Len(ret.err) : ret.err[j] = enumErr[v][i]

(***************************************************************************)
(* C21. As claimed: a pass that follows an applied pass over the same      *)
(* service issues, request by request, the AddPortMapping requests of the  *)
(* earlier pass with the same argument values; when it ends Applied it has *)
(* issued all of them and the gateway holds the mappings it held after     *)
(* the earlier pass.                                                       *)
(***************************************************************************)
C21_ResubmissionIdempotent ==
    previous.applied =>
        LET r == Requests(calls)
        IN  /\ Len(r) <= Len(previous.requests)
            /\ \A i \in 1..Len(r) : r[i] = previous.requests[i]
            /\ (pc = "done" /\ ret.at = "applied") =>
                   /\ r = previous.requests
                   /\ Mappings(table) = previous.mappings

\* the first non-empty address among the service's ingress entries
FirstAllocatedAddress(svc) ==
    svc.Ingress[CHOOSE i \in 1..Len(svc.Ingress) :
                    /\ svc.Ingress[i] # ""
                    /\ \A j \in 1..(i - 1) : svc.Ingress[j] = ""]

(***************************************************************************)
(* C22. Every AddPortMapping request has an empty remote host, is enabled, *)
(* has a lease duration of 3600 seconds and the protocol TCP or UDP; all   *)
(* requests of a pass carry the service's first non-empty allocated        *)
(* address as internal client and the same description.                    *)
(***************************************************************************)
C22_RequestFieldsFixed ==
    LET a == AddCalls
    IN  /\ \A i \in 1..Len(a) :
               /\ a[i].NewRemoteHost = ""
               /\ a[i].NewEnabled = TRUE
               /\ a[i].NewLeaseDuration = 3600
               /\ a[i].NewProtocol \in {"TCP", "UDP"}
               /\ HasAllocatedAddress(service)
               /\ a[i].NewInternalClient = FirstAllocatedAddress(service)
               /\ a[i].NewInternalClient # ""
        /\ \A i, j \in 1..Len(a) :
               /\ a[i].NewInternalClient = a[j].NewInternalClient
               /\ a[i].NewPortMappingDescription = a[j].NewPortMappingDescription

\* two requests of a service whose first ingress entry has no IP
C22_Witness ==
    /\ Len(AddCalls) = 2
    /\ service.Ingress = <<"", "192.168.1.240">>
    /\ AddCalls[1].NewInternalClient = "192.168.1.240"
    /\ AddCalls[2].NewInternalClient = "192.168.1.240"
    /\ AddCalls[1].NewProtocol = "TCP"
    /\ AddCalls[2].NewProtocol = "UDP"
    /\ AddCalls[2].NewLeaseDuration = 3600

(***************************************************************************)
(* C23. A pass that has selected a gateway has called its                  *)
(* GetExternalIPAddress exactly once, as the first device call, after all  *)
(* tasks have returned and before every AddPortMapping; when that call     *)
(* has failed, the pass has ended with its error, with no AddPortMapping   *)
(* request and no requeue delay.                                           *)
(***************************************************************************)
C23_ExternalAddressQueriedOnceFirst ==
    /\ (router # NoRouter) <=> (calls # << >>)
    /\ calls # << >> =>
           /\ AllReturned
           /\ calls[1].op = "GetExternalIPAddress"
           /\ calls[1].router = router
           /\ \A i \in 2..Len(calls) : calls[i].op = "AddPortMapping"
           /\ ~calls[1].ok =>
                  /\ pc = "done"
                  /\ ret.at = "extip"
                  /\ ret.err = ErrGetExternalIPAddress
                  /\ ret.RequeueAfter = 0
                  /\ Len(calls) = 1
                  /\ AddCalls = << >>

\* the query failed on a service that has ports to forward and an address
C23_Witness ==
    /\ pc = "done"
    /\ ret.at = "extip"
    /\ Len(service.Ports) = 2
    /\ HasAllocatedAddress(service)
    /\ Len(calls) = 1
    /\ ~calls[1].ok

(***************************************************************************)
(* C24. As claimed: the result of the port-remap parse depends on the      *)
(* metadata alone; every order in which the pairs may be visited gives the *)
(* same map (or no map) as the one the pass has obtained, and so the same  *)
(* external port for every declared port.                                  *)
(***************************************************************************)
C24_ParseIndependentOfOrder ==
    Parsed =>
        \A order \in IterationOrders(service.Annotations) :
            LET other == getHolepunchPortMapping(service, order)
            IN  /\ other.isNil = portMapping.isNil
                /\ other.portMapping = portMapping.portMapping
                /\ \A i \in 1..Len(service.Ports) :
                       ExternalPort(other.portMapping, Uint16(service.Ports[i].Port))
                           = ExternalPort(portMapping.portMapping, Uint16(service.Ports[i].Port))

====
